---- MODULE Spec2Model ----
(***************************************************************************)
(* Model of two components of the cloudamqp CLI:                           *)
(*   - waitForInstanceReady (src/cmd/wait.go): the readiness poller, a     *)
(*     10 s ticker racing a context deadline around GetInstance calls;     *)
(*   - table.Printer (src/internal/table/table.go): New / AddRow / Print.  *)
(* The two components share no state; each has its own specification       *)
(* (SpecPoller, SpecTable) under which the other's variables stay at Init. *)
(***************************************************************************)
EXTENDS Integers, Sequences, FiniteSets

VARIABLES
    \* ---- waitForInstanceReady ----
    timeout,      \* the timeout argument, in seconds
    now,          \* seconds since startTime (wait.go:19)
    pc,           \* "idle" | "immediate" | "select" | "done"
    tickPending,  \* a tick is buffered in ticker.C (channel of capacity 1)
    log,          \* outcomes of the GetInstance calls issued so far, in order
    waits,        \* number of times the select blocked until an event
    ticks,        \* number of ticks received from ticker.C
    result,       \* "none" | "ok" | "fetcherr" | "timeout"
    cause,        \* the error wrapped by a "fetcherr" result, else "nil"
    elapsed,      \* time.Since(startTime) when the function returned, else -1
    fetchEnd,     \* the time at which the latest GetInstance call returned
    instanceID,   \* the instanceID argument
    calls,        \* the client operations invoked so far: [op, id]
    lastStart,    \* the time at which the latest GetInstance call was issued
    lastGap,      \* the time from the previous call's issue to that issue
    \* ---- table.Printer ----
    columns,      \* p.columns: sequence of [Header, Width]
    rows,         \* p.rows: sequence of rows, each a sequence of strings
    out,          \* bytes written to p.writer by the most recent Print call
    lastOp,       \* "None" | "New" | "AddRow" | "Print": the most recent call
    lastLen,      \* number of values passed to the most recent AddRow
    lastErr,      \* the most recent AddRow returned an error
    nPrints,      \* number of Print calls so far
    \* ---- rotate-key ----
    storedKey,    \* the API key in the local configuration file, 0 for none
    serverKey,    \* the API key the service accepts
    rkRuns,       \* number of rotate-key runs so far
    rkResult,     \* "none" | "ok" | "err_getkey" | "err_rotate": the latest run
    rkResp,       \* resp.APIKey of the latest run, 0 when RotateAPIKey failed
    rkBefore,     \* the stored key when the latest run began
    \* ---- instance get ----
    igResult,     \* "none" | "ok" | "err_id" | "err_key" | "err_atoi" | "err_api"
    igShowURL,    \* the --show-url flag of the latest successful run
    igURL,        \* instance.URL of the latest successful run
    igOut,        \* what that run printed after "URL = "
    \* ---- instance config set ----
    csResult,     \* "none" | "ok" | "err_id" | "err_key" | "err_update"
    csArgs,       \* [id, name, value]: the --id flag and the two arguments
    csSent        \* the UpdateRabbitMQConfig requests issued: [id, config]

pollerVars == <<timeout, now, pc, tickPending, log, waits, ticks, result, cause, elapsed,
                fetchEnd, instanceID, calls, lastStart, lastGap>>
tableVars == <<columns, rows, out, lastOp, lastLen, lastErr, nPrints>>
rotateVars == <<storedKey, serverKey, rkRuns, rkResult, rkResp, rkBefore>>
getVars == <<igResult, igShowURL, igURL, igOut>>
setVars == <<csResult, csArgs, csSent>>
cmdVars == <<rotateVars, getVars, setVars>>
vars == <<timeout, now, pc, tickPending, log, waits, ticks, result, cause, elapsed, fetchEnd,
          instanceID, calls, lastStart, lastGap,
          columns, rows, out, lastOp, lastLen, lastErr, nPrints,
          storedKey, serverKey, rkRuns, rkResult, rkResp, rkBefore,
          igResult, igShowURL, igURL, igOut,
          csResult, csArgs, csSent>>

\* ---------------------------------------------------------------------
\* Bounds of the model
\* ---------------------------------------------------------------------
MaxTimeout == 21
MaxFetchDur == 11
MaxFetches == 4
MaxRows == 2
MaxPrints == 2
MaxRuns == 4

\* ---------------------------------------------------------------------
\* waitForInstanceReady
\* ---------------------------------------------------------------------

\* time.NewTicker(10 * time.Second)
PollInterval == 10

\* What one c.GetInstance(instanceID) call can return: a snapshot with
\* Ready true or false, or an error (two distinct causes).
Outcomes == {"ready", "notready", "err_transport", "err_decode"}

IsErr(o) == o \in {"err_transport", "err_decode"}

\* The instance IDs the poller is called with.
InstanceIDs == {1234, 5678}

\* Mutant of ClientCall: the poll goes through an updating operation.
ClientCall_Update(id) == [op |-> "UpdateInstance", id |-> id]

\* wait.go:22 and wait.go:38: c.GetInstance(instanceID).
ClientCall(id) == [op |-> "GetInstance", id |-> id]

\* Mutant of TickIn: the ticker runs at half the period.
TickIn_HalfPeriod(a, b) == \E t \in (a + 1)..b : t % 5 = 0

\* The ticker sends on ticker.C at PollInterval, 2*PollInterval, ... after
\* its creation; TickIn(a, b) is TRUE when a send falls in (a, b].
TickIn(a, b) == \E t \in (a + 1)..b : t % PollInterval = 0

\* The first tick strictly after time t.
NextTick(t) == ((t \div PollInterval) + 1) * PollInterval

Min(a, b) == IF a < b THEN a ELSE b

Max(a, b) == IF a > b THEN a ELSE b

\* ctx.Done() is closed once the timeout has passed.
DeadlineExpired == now >= timeout

\* Mutant of AfterFetch: a ready snapshot is not acted on, the loop goes on.
AfterFetch_IgnoreReady(o, t) ==
    IF IsErr(o)
    THEN /\ pc' = "done"
         /\ result' = "fetcherr"
         /\ cause' = o
         /\ elapsed' = t
    ELSE /\ pc' = "select"
         /\ UNCHANGED <<result, cause, elapsed>>

\* Mutant of AfterFetch: a failed call is retried on the next tick.
AfterFetch_RetryErr(o, t) ==
    IF o = "ready"
    THEN /\ pc' = "done"
         /\ result' = "ok"
         /\ cause' = "nil"
         /\ elapsed' = t
    ELSE /\ pc' = "select"
         /\ UNCHANGED <<result, cause, elapsed>>

\* Mutant of AfterFetch: the Ready test is inverted.
AfterFetch_ReadyInverted(o, t) ==
    IF IsErr(o)
    THEN /\ pc' = "done"
         /\ result' = "fetcherr"
         /\ cause' = o
         /\ elapsed' = t
    ELSE IF o = "notready"
    THEN /\ pc' = "done"
         /\ result' = "ok"
         /\ cause' = "nil"
         /\ elapsed' = t
    ELSE /\ pc' = "select"
         /\ UNCHANGED <<result, cause, elapsed>>

\* The statements that follow a GetInstance call (wait.go:23-28 and 39-50):
\* an error returns wrapped, Ready returns nil, otherwise the loop goes on.
AfterFetch(o, t) ==
    IF IsErr(o)
    THEN /\ pc' = "done"
         /\ result' = "fetcherr"
         /\ cause' = o
         /\ elapsed' = t
    ELSE IF o = "ready"
    THEN /\ pc' = "done"
         /\ result' = "ok"
         /\ cause' = "nil"
         /\ elapsed' = t
    ELSE /\ pc' = "select"
         /\ UNCHANGED <<result, cause, elapsed>>

\* Mutant of FetchImmediate: no immediate check, the first call is made
\* on the first tick.
FetchImmediate_AfterTick ==
    /\ pc = "immediate"
    /\ \E d \in 0..MaxFetchDur, o \in Outcomes :
          /\ now' = PollInterval + d
          /\ log' = Append(log, o)
          /\ tickPending' = TickIn(PollInterval, PollInterval + d)
          /\ fetchEnd' = PollInterval + d
          /\ calls' = Append(calls, ClientCall(instanceID))
          /\ lastStart' = PollInterval
          /\ lastGap' = PollInterval
          /\ AfterFetch(o, PollInterval + d)
    /\ waits' = waits + 1
    /\ ticks' = ticks + 1
    /\ UNCHANGED <<timeout, instanceID>>
    /\ UNCHANGED tableVars
    /\ UNCHANGED cmdVars

\* wait.go:21-28: the immediate check. The call takes d seconds, during
\* which the ticker may fill its channel.
FetchImmediate ==
    /\ pc = "immediate"
    /\ \E d \in 0..MaxFetchDur, o \in Outcomes :
          /\ now' = now + d
          /\ log' = Append(log, o)
          /\ tickPending' = (tickPending \/ TickIn(now, now + d))
          /\ fetchEnd' = now + d
          /\ calls' = Append(calls, ClientCall(instanceID))
          /\ lastStart' = now
          /\ lastGap' = now - lastStart
          /\ AfterFetch(o, now + d)
    /\ UNCHANGED <<timeout, waits, ticks, instanceID>>
    /\ UNCHANGED tableVars
    /\ UNCHANGED cmdVars

\* Mutant of SelectBlock: the wait ends on the next tick only, the
\* deadline does not wake the select.
SelectBlock_TickOnly ==
    /\ pc = "select"
    /\ ~tickPending
    /\ ~DeadlineExpired
    /\ now' = NextTick(now)
    /\ tickPending' = TRUE
    /\ waits' = waits + 1
    /\ UNCHANGED <<timeout, pc, log, ticks, result, cause, elapsed, fetchEnd, instanceID, calls, lastStart, lastGap>>
    /\ UNCHANGED tableVars
    /\ UNCHANGED cmdVars

\* wait.go:33: neither channel is ready, the select blocks until the first
\* of the next tick and the deadline.
SelectBlock ==
    /\ pc = "select"
    /\ ~tickPending
    /\ ~DeadlineExpired
    /\ now' = Min(timeout, NextTick(now))
    /\ tickPending' = (NextTick(now) <= timeout)
    /\ waits' = waits + 1
    /\ UNCHANGED <<timeout, pc, log, ticks, result, cause, elapsed, fetchEnd, instanceID, calls, lastStart, lastGap>>
    /\ UNCHANGED tableVars
    /\ UNCHANGED cmdVars

\* Mutant of SelectDone: the case leaves the select only (a bare break),
\* the loop goes on.
SelectDone_BreakOnly ==
    /\ pc = "select"
    /\ DeadlineExpired
    /\ UNCHANGED vars

\* wait.go:34-36: case <-ctx.Done()
SelectDone ==
    /\ pc = "select"
    /\ DeadlineExpired
    /\ pc' = "done"
    /\ result' = "timeout"
    /\ elapsed' = now
    /\ UNCHANGED <<timeout, now, tickPending, log, waits, ticks, cause, fetchEnd, instanceID, calls, lastStart, lastGap>>
    /\ UNCHANGED tableVars
    /\ UNCHANGED cmdVars

\* Mutant of SelectTick: the poll does not wait for a tick (a default case).
SelectTick_NoTick ==
    /\ pc = "select"
    /\ Len(log) < MaxFetches
    /\ \E d \in 0..MaxFetchDur, o \in Outcomes :
          /\ now' = now + d
          /\ log' = Append(log, o)
          /\ tickPending' = TickIn(now, now + d)
          /\ fetchEnd' = now + d
          /\ calls' = Append(calls, ClientCall(instanceID))
          /\ lastStart' = now
          /\ lastGap' = now - lastStart
          /\ AfterFetch(o, now + d)
    /\ ticks' = ticks + 1
    /\ UNCHANGED <<timeout, waits, instanceID>>
    /\ UNCHANGED tableVars
    /\ UNCHANGED cmdVars

\* wait.go:37-50: case <-ticker.C, then the GetInstance call of d seconds.
\* When the deadline has expired too, Go's select picks either ready case.
SelectTick ==
    /\ pc = "select"
    /\ tickPending
    /\ Len(log) < MaxFetches
    /\ \E d \in 0..MaxFetchDur, o \in Outcomes :
          /\ now' = now + d
          /\ log' = Append(log, o)
          /\ tickPending' = TickIn(now, now + d)
          /\ fetchEnd' = now + d
          /\ calls' = Append(calls, ClientCall(instanceID))
          /\ lastStart' = now
          /\ lastGap' = now - lastStart
          /\ AfterFetch(o, now + d)
    /\ ticks' = ticks + 1
    /\ UNCHANGED <<timeout, waits, instanceID>>
    /\ UNCHANGED tableVars
    /\ UNCHANGED cmdVars

\* ---------------------------------------------------------------------
\* table.Printer
\* ---------------------------------------------------------------------
\* Strings are sequences of characters. E_ACUTE stands for a character
\* whose UTF-8 encoding has two bytes; NL is the newline character.
E_ACUTE == "U+00E9"

NL == "\n"

\* Bytes in the encoding of one character.
ByteLen(c) == IF c = E_ACUTE THEN 2 ELSE 1

\* Go's len(s): the number of bytes of s.
RECURSIVE GoLen(_)
GoLen(s) == IF s = <<>> THEN 0 ELSE ByteLen(Head(s)) + GoLen(Tail(s))

\* utf8.RuneCountInString(s): what fmt measures a width in.
RuneCount(s) == Len(s)

\* strings.Repeat(c, n)
Repeat(c, n) == [i \in 1..n |-> c]

\* fmt's verb %-Ns: s followed by spaces up to N characters, s itself
\* when it is already N characters or more.
PadRight(s, n) ==
    IF RuneCount(s) >= n THEN s ELSE s \o Repeat(" ", n - RuneCount(s))

\* fmt.Fprintf(p.writer, format, vals...) with the format of table.go:63-67:
\* the fields %-Ws of the columns joined by " ", then "\n".
RECURSIVE FormatFields(_, _, _)
FormatFields(cols, vals, i) ==
    IF i > Len(cols)
    THEN <<>>
    ELSE (IF i > 1 THEN <<" ">> ELSE <<>>)
         \o PadRight(vals[i], cols[i].Width)
         \o FormatFields(cols, vals, i + 1)

FormatLine(cols, vals) == FormatFields(cols, vals, 1) \o <<NL>>

\* Mutant of FormatRows: the rows are written last to first.
RECURSIVE FormatRows_Reversed(_, _)
FormatRows_Reversed(cols, rws) ==
    IF rws = <<>>
    THEN <<>>
    ELSE FormatRows_Reversed(cols, Tail(rws)) \o FormatLine(cols, Head(rws))

\* table.go:79-86: one formatted line per row, in the order of p.rows.
RECURSIVE FormatRows(_, _)
FormatRows(cols, rws) ==
    IF rws = <<>>
    THEN <<>>
    ELSE FormatLine(cols, Head(rws)) \o FormatRows(cols, Tail(rws))

\* table.go:23-36: one column per header, of the header's len.
NewColumns(headers) ==
    [i \in DOMAIN headers |-> [Header |-> headers[i], Width |-> GoLen(headers[i])]]

\* Mutant of ArityOK: only rows that are too short are rejected.
ArityOK_AtLeast(values) == Len(values) >= Len(columns)

\* table.go:40: the arity check of AddRow.
ArityOK(values) == Len(values) = Len(columns)

\* table.go:45-49: each column's Width grows to the len of its new value.
Widen(cols, values) ==
    [i \in DOMAIN cols |->
        IF GoLen(values[i]) > cols[i].Width
        THEN [cols[i] EXCEPT !.Width = GoLen(values[i])]
        ELSE cols[i]]

\* The widths updated for the values that have a column, as a loop that
\* runs before the arity check would leave them.
WidenPrefix(cols, values) ==
    [i \in DOMAIN cols |->
        IF i \in DOMAIN values /\ GoLen(values[i]) > cols[i].Width
        THEN [cols[i] EXCEPT !.Width = GoLen(values[i])]
        ELSE cols[i]]

\* Mutant of AddRow: the widths are updated before the arity check.
AddRow_WidenFirst(values) ==
    /\ IF ArityOK(values)
       THEN /\ Len(rows) < MaxRows
            /\ columns' = Widen(columns, values)
            /\ rows' = Append(rows, values)
            /\ lastErr' = FALSE
       ELSE /\ columns' = WidenPrefix(columns, values)
            /\ rows' = rows
            /\ lastErr' = TRUE
    /\ lastOp' = "AddRow"
    /\ lastLen' = Len(values)
    /\ UNCHANGED <<out, nPrints>>
    /\ UNCHANGED pollerVars
    /\ UNCHANGED cmdVars

\* table.go:39-53: Printer.AddRow(values...).
AddRow(values) ==
    /\ IF ArityOK(values)
       THEN /\ Len(rows) < MaxRows
            /\ columns' = Widen(columns, values)
            /\ rows' = Append(rows, values)
            /\ lastErr' = FALSE
       ELSE /\ UNCHANGED <<columns, rows>>
            /\ lastErr' = TRUE
    /\ lastOp' = "AddRow"
    /\ lastLen' = Len(values)
    /\ UNCHANGED <<out, nPrints>>
    /\ UNCHANGED pollerVars
    /\ UNCHANGED cmdVars

\* table.go:57-60: the padding is added to the stored widths.
Padded(cols) == [i \in DOMAIN cols |-> [cols[i] EXCEPT !.Width = @ + 2]]

\* table.go:70-75: the header cells and the separator cells.
HeaderCells(cols) == [i \in DOMAIN cols |-> cols[i].Header]

\* Mutant of SeparatorCells: the dashes fill the column's width.
SeparatorCells_Width(cols) == [i \in DOMAIN cols |-> Repeat("-", cols[i].Width)]

SeparatorCells(cols) == [i \in DOMAIN cols |-> Repeat("-", GoLen(cols[i].Header))]

\* Mutant of Render: the separator line is not written.
Render_NoSeparator(cols, rws) ==
    FormatLine(cols, HeaderCells(cols)) \o FormatRows(cols, rws)

\* table.go:62-86: what Print writes with the (padded) columns cols.
Render(cols, rws) ==
    FormatLine(cols, HeaderCells(cols))
    \o FormatLine(cols, SeparatorCells(cols))
    \o FormatRows(cols, rws)

\* table.go:56-87: Printer.Print().
PrinterPrint ==
    /\ lastOp # "None"
    /\ nPrints < MaxPrints
    /\ columns' = Padded(columns)
    /\ out' = Render(Padded(columns), rows)
    /\ lastOp' = "Print"
    /\ nPrints' = nPrints + 1
    /\ UNCHANGED <<rows, lastLen, lastErr>>
    /\ UNCHANGED pollerVars
    /\ UNCHANGED cmdVars

\* The header lists the tables are built from: none, one column, two
\* columns (one header of two bytes in one character).
HeaderLists ==
    { <<>>,
      << <<"I", "D">> >>,
      << <<E_ACUTE>>, <<"T", "A", "G">> >> }

\* The cell values rows are built from: one shorter than every header, one
\* of a newline, one of four bytes in three characters that is longer
\* than every header.
CellValues ==
    { <<"x">>,
      <<NL>>,
      <<E_ACUTE, "y", "z">> }

\* The argument lists of an AddRow call: any number of values up to one
\* more than the table has columns.
RowInputs == UNION { [1..n -> CellValues] : n \in 0..(Len(columns) + 1) }

AddRowCall ==
    /\ lastOp # "None"
    /\ \E values \in RowInputs : AddRow(values)

\* No table exists (the poller's specification).
TableInitIdle ==
    /\ columns = <<>>
    /\ rows = <<>>
    /\ out = <<>>
    /\ lastOp = "None"
    /\ lastLen = 0
    /\ lastErr = FALSE
    /\ nPrints = 0

\* No poll is running (the table's specification).
PollerInitIdle ==
    /\ timeout = 0
    /\ now = 0
    /\ pc = "idle"
    /\ tickPending = FALSE
    /\ log = <<>>
    /\ waits = 0
    /\ ticks = 0
    /\ result = "none"
    /\ cause = "nil"
    /\ elapsed = -1
    /\ fetchEnd = 0
    /\ instanceID = 0
    /\ calls = <<>>
    /\ lastStart = 0
    /\ lastGap = 0

\* ---------------------------------------------------------------------
\* rotate-key (rotateKeyCmd)
\* ---------------------------------------------------------------------

\* getAPIKey(): the key of the local configuration, an error when there
\* is none or when it cannot be read.
GetAPIKeyResults ==
    IF storedKey = 0
    THEN {[err |-> TRUE, key |-> 0]}
    ELSE {[err |-> FALSE, key |-> storedKey], [err |-> TRUE, key |-> 0]}

\* c.RotateAPIKey() called with apiKey: the service rejects a key it does
\* not accept; otherwise the call fails before the rotation ("fail"), or
\* the key is rotated and the response arrives ("ok") or is lost ("lost").
RotateOutcomes(apiKey) ==
    IF apiKey = serverKey THEN {"ok", "fail", "lost"} ELSE {"fail"}

\* saveAPIKey(key): the configuration holds key afterwards, or, when the
\* file cannot be written, what it held before.
SaveAPIKeyResults(key) == {key, storedKey}

\* _ = saveAPIKey(resp.APIKey): the stored key after the call whose error
\* is discarded.
SaveIgnored(key) == SaveAPIKeyResults(key)

\* RunE of rotateKeyCmd: getAPIKey, RotateAPIKey, print, save, return nil.
\* (json.MarshalIndent of the response struct does not fail.)
RotateKey ==
    /\ rkRuns < MaxRuns
    /\ rkRuns' = rkRuns + 1
    /\ rkBefore' = storedKey
    /\ \E k \in GetAPIKeyResults :
          IF k.err
          THEN /\ rkResult' = "err_getkey"
               /\ rkResp' = 0
               /\ UNCHANGED <<storedKey, serverKey>>
          ELSE \E o \in RotateOutcomes(k.key) :
                  IF o = "ok"
                  THEN /\ serverKey' = serverKey + 1
                       /\ rkResp' = serverKey + 1
                       /\ storedKey' \in SaveIgnored(serverKey + 1)
                       /\ rkResult' = "ok"
                  ELSE /\ serverKey' = IF o = "lost" THEN serverKey + 1 ELSE serverKey
                       /\ rkResp' = 0
                       /\ rkResult' = "err_rotate"
                       /\ UNCHANGED storedKey
    /\ UNCHANGED pollerVars
    /\ UNCHANGED tableVars
    /\ UNCHANGED getVars
    /\ UNCHANGED setVars

\* The user stores a key in the configuration, the current one or one that
\* was rotated away, or removes the key.
SetStoredKey ==
    /\ rkRuns < MaxRuns
    /\ \E k \in 0..serverKey :
          /\ k # storedKey
          /\ storedKey' = k
    /\ UNCHANGED <<serverKey, rkRuns, rkResult, rkResp, rkBefore>>
    /\ UNCHANGED pollerVars
    /\ UNCHANGED tableVars
    /\ UNCHANGED getVars
    /\ UNCHANGED setVars

\* No rotate-key run (the other specifications).
RotateInitIdle ==
    /\ storedKey = 0
    /\ serverKey = 1
    /\ rkRuns = 0
    /\ rkResult = "none"
    /\ rkResp = 0
    /\ rkBefore = 0

\* ---------------------------------------------------------------------
\* strconv
\* ---------------------------------------------------------------------
Digits == {"0", "1", "2", "3", "4", "5", "6", "7", "8", "9"}

DigitSeq == <<"0", "1", "2", "3", "4", "5", "6", "7", "8", "9">>

DigitVal(c) == (CHOOSE k \in 1..10 : DigitSeq[k] = c) - 1

RECURSIVE DigitsVal(_, _)
DigitsVal(s, acc) ==
    IF s = <<>> THEN acc ELSE DigitsVal(Tail(s), acc * 10 + DigitVal(Head(s)))

HasSign(s) == s # <<>> /\ s[1] \in {"+", "-"}

Unsigned(s) == IF HasSign(s) THEN Tail(s) ELSE s

\* The first position from i on at which s has no character of S.
SkipWhile(s, i, S) ==
    CHOOSE j \in i..(Len(s) + 1) :
        /\ \A k \in i..(j - 1) : s[k] \in S
        /\ (j = Len(s) + 1 \/ s[j] \notin S)

\* s without its leading zeros.
Significant(s) == SubSeq(s, SkipWhile(s, 1, {"0"}), Len(s))

\* a >= b for two digit strings read as decimal fractions 0.a and 0.b.
FracGE(a, b) ==
    LET at(x, k) == IF k <= Len(x) THEN DigitVal(x[k]) ELSE 0
        n == Max(Len(a), Len(b))
    IN  \/ \A k \in 1..n : at(a, k) = at(b, k)
        \/ \E k \in 1..n : /\ at(a, k) > at(b, k)
                            /\ \A j \in 1..(k - 1) : at(a, j) = at(b, j)

\* The digits of 1<<63 - 1, the largest int of a 64-bit build.
MaxInt64 == <<"9", "2", "2", "3", "3", "7", "2", "0", "3", "6", "8", "5", "4", "7", "7", "5", "8", "0", "7">>

\* The digits of 1<<63.
MinInt64Abs == <<"9", "2", "2", "3", "3", "7", "2", "0", "3", "6", "8", "5", "4", "7", "7", "5", "8", "0", "8">>

\* strconv.Atoi(s) returns no error: an optional sign, one or more decimal
\* digits, and a value within the range of a 64-bit int.
AtoiOK(s) ==
    /\ Unsigned(s) # <<>>
    /\ \A k \in 1..Len(Unsigned(s)) : Unsigned(s)[k] \in Digits
    /\ LET d == Significant(Unsigned(s))
           lim == IF s[1] = "-" THEN MinInt64Abs ELSE MaxInt64
       IN  \/ Len(d) < Len(lim)
           \/ Len(d) = Len(lim) /\ FracGE(lim, d)

\* The value strconv.Atoi(s) returns.
AtoiVal(s) ==
    IF s[1] = "-" THEN 0 - DigitsVal(Unsigned(s), 0) ELSE DigitsVal(Unsigned(s), 0)

UpperSeq == <<"A", "B", "C", "D", "E", "F", "G", "H", "I", "J", "K", "L", "M",
              "N", "O", "P", "Q", "R", "S", "T", "U", "V", "W", "X", "Y", "Z">>

LowerSeq == <<"a", "b", "c", "d", "e", "f", "g", "h", "i", "j", "k", "l", "m",
              "n", "o", "p", "q", "r", "s", "t", "u", "v", "w", "x", "y", "z">>

\* strings.ToLower(s)
ToLowerChar(c) ==
    IF \E k \in 1..26 : UpperSeq[k] = c
    THEN LowerSeq[CHOOSE k \in 1..26 : UpperSeq[k] = c]
    ELSE c

ToLower(s) == [k \in 1..Len(s) |-> ToLowerChar(s[k])]

HexDigits == Digits \cup {"a", "b", "c", "d", "e", "f", "A", "B", "C", "D", "E", "F"}

\* strconv's readFloat on all of b: digits with at most one point and at
\* least one digit, then an exponent (the character, an optional sign, one
\* or more decimal digits), which a hexadecimal mantissa requires.
FloatSyntax(b, digs, expChars, expRequired) ==
    LET i1 == SkipWhile(b, 1, digs)
        hasDot == i1 <= Len(b) /\ b[i1] = "."
        i2 == IF hasDot THEN SkipWhile(b, i1 + 1, digs) ELSE i1
        nd == (i1 - 1) + (IF hasDot THEN i2 - i1 - 1 ELSE 0)
        hasExp == i2 <= Len(b) /\ b[i2] \in expChars
        i3 == IF hasExp
              THEN (IF i2 + 1 <= Len(b) /\ b[i2 + 1] \in {"+", "-"} THEN i2 + 2 ELSE i2 + 1)
              ELSE i2
        i4 == IF hasExp THEN SkipWhile(b, i3, Digits) ELSE i2
    IN  /\ nd >= 1
        /\ hasExp => i4 > i3
        /\ expRequired => hasExp
        /\ i4 = Len(b) + 1

HexSeq == <<"0", "1", "2", "3", "4", "5", "6", "7", "8", "9",
            "a", "b", "c", "d", "e", "f">>

HexVal(c) == (CHOOSE k \in 1..16 : HexSeq[k] = ToLowerChar(c)) - 1

\* The digits of 1<<1024 - 1<<970, halfway between the largest float64 and
\* 1<<1024: a decimal value of this size or more is out of range.
HalfwayToInf == <<"1", "7", "9", "7", "6", "9", "3", "1", "3", "4", "8", "6", "2", "3", "1", "5", "8", "0", "7", "9",
      "3", "7", "2", "8", "9", "7", "1", "4", "0", "5", "3", "0", "3", "4", "1", "5", "0", "7", "9", "9",
      "3", "4", "1", "3", "2", "7", "1", "0", "0", "3", "7", "8", "2", "6", "9", "3", "6", "1", "7", "3",
      "7", "7", "8", "9", "8", "0", "4", "4", "4", "9", "6", "8", "2", "9", "2", "7", "6", "4", "7", "5",
      "0", "9", "4", "6", "6", "4", "9", "0", "1", "7", "9", "7", "7", "5", "8", "7", "2", "0", "7", "0",
      "9", "6", "3", "3", "0", "2", "8", "6", "4", "1", "6", "6", "9", "2", "8", "8", "7", "9", "1", "0",
      "9", "4", "6", "5", "5", "5", "5", "4", "7", "8", "5", "1", "9", "4", "0", "4", "0", "2", "6", "3",
      "0", "6", "5", "7", "4", "8", "8", "6", "7", "1", "5", "0", "5", "8", "2", "0", "6", "8", "1", "9",
      "0", "8", "9", "0", "2", "0", "0", "0", "7", "0", "8", "3", "8", "3", "6", "7", "6", "2", "7", "3",
      "8", "5", "4", "8", "4", "5", "8", "1", "7", "7", "1", "1", "5", "3", "1", "7", "6", "4", "4", "7",
      "5", "7", "3", "0", "2", "7", "0", "0", "6", "9", "8", "5", "5", "5", "7", "1", "3", "6", "6", "9",
      "5", "9", "6", "2", "2", "8", "4", "2", "9", "1", "4", "8", "1", "9", "8", "6", "0", "8", "3", "4",
      "9", "3", "6", "4", "7", "5", "2", "9", "2", "7", "1", "9", "0", "7", "4", "1", "6", "8", "4", "4",
      "4", "3", "6", "5", "5", "1", "0", "7", "0", "4", "3", "4", "2", "7", "1", "1", "5", "5", "9", "6",
      "9", "9", "5", "0", "8", "0", "9", "3", "0", "4", "2", "8", "8", "0", "1", "7", "7", "9", "0", "4",
      "1", "7", "4", "4", "9", "7", "7", "9", "2">>

\* strconv.ParseFloat(s, 64) returns ErrRange for the well-formed text b:
\* the value rounds to infinity. (A value that rounds to zero is no error.)
FloatOutOfRange(b, digs) ==
    LET i1 == SkipWhile(b, 1, digs)
        hasDot == i1 <= Len(b) /\ b[i1] = "."
        i2 == IF hasDot THEN SkipWhile(b, i1 + 1, digs) ELSE i1
        m == SubSeq(b, 1, i1 - 1) \o (IF hasDot THEN SubSeq(b, i1 + 1, i2 - 1) ELSE <<>>)
        z == SkipWhile(m, 1, {"0"})
        sig == SubSeq(m, z, Len(m))
        p == (i1 - 1) - z
        hasExp == i2 <= Len(b)
        eNeg == hasExp /\ b[i2 + 1] = "-"
        eDigs == IF hasExp
                 THEN Significant(SubSeq(b, IF b[i2 + 1] \in {"+", "-"} THEN i2 + 2 ELSE i2 + 1, Len(b)))
                 ELSE <<>>
        \* strconv caps the exponent it reads at 10000
        eAbs == IF Len(eDigs) > 4 THEN 10000 ELSE DigitsVal(eDigs, 0)
        e == IF eNeg THEN 0 - eAbs ELSE eAbs
        lead == HexVal(sig[1])
        lz == IF lead >= 8 THEN 0 ELSE IF lead >= 4 THEN 1 ELSE IF lead >= 2 THEN 2 ELSE 3
        bit(k) == (HexVal(sig[((k - 1) \div 4) + 1]) \div (2 ^ (3 - ((k - 1) % 4)))) % 2
        top == e + 4 * p + (3 - lz)
    IN  /\ sig # <<>>
        /\ IF digs = Digits
           THEN \/ e + p > Len(HalfwayToInf) - 1
                \/ e + p = Len(HalfwayToInf) - 1 /\ FracGE(sig, HalfwayToInf)
           ELSE \/ top > 1023
                \/ /\ top = 1023
                   /\ lz + 54 <= 4 * Len(sig)
                   /\ \A k \in (lz + 1)..(lz + 54) : bit(k) = 1

\* strconv's special: [+-]inf, [+-]infinity and nan, in any case.
FloatSpecial(s) ==
    \/ ToLower(Unsigned(s)) \in {<<"i", "n", "f">>,
                                 <<"i", "n", "f", "i", "n", "i", "t", "y">>}
    \/ ToLower(s) = <<"n", "a", "n">>

HasHexPrefix(b) == Len(b) > 2 /\ b[1] = "0" /\ b[2] \in {"x", "X"}

\* strconv.ParseFloat(s, 64) returns no error.
ParseFloatOK(s) ==
    \/ FloatSpecial(s)
    \/ IF HasHexPrefix(Unsigned(s))
       THEN /\ FloatSyntax(SubSeq(Unsigned(s), 3, Len(Unsigned(s))), HexDigits, {"p", "P"}, TRUE)
            /\ ~FloatOutOfRange(SubSeq(Unsigned(s), 3, Len(Unsigned(s))), HexDigits)
       ELSE /\ FloatSyntax(Unsigned(s), Digits, {"e", "E"}, FALSE)
            /\ ~FloatOutOfRange(Unsigned(s), Digits)

\* ---------------------------------------------------------------------
\* instance get (maskPassword, instanceGetCmd)
\* ---------------------------------------------------------------------

\* The instance URLs the API returns: amqps://[user[:pass]@]host[path]
\* [?query][#frag]. A password or a path may hold an invalid percent
\* escape, which url.Parse rejects.
Passwords == {<<"s3cret">>, <<"s3%zz">>}

URLs ==
    { u \in [user : {<<>>, <<"user">>},
             pass : {<<>>} \cup Passwords,
             path : {<<>>, <<"/vhost">>, <<"/%zz">>},
             query : {<<>>, <<"heartbeat=30">>},
             frag : {<<>>, <<"frag">>}] :
        u.pass # <<>> => u.user # <<>> }

HasUserinfo(u) == u.user # <<>>

\* The URL as the string the API returns, in tokens.
UrlText(u) ==
    <<"amqps", "://">>
    \o (IF HasUserinfo(u)
        THEN u.user \o (IF u.pass # <<>> THEN <<":">> \o u.pass ELSE <<>>) \o <<"@">>
        ELSE <<>>)
    \o <<"host">>
    \o u.path
    \o (IF u.query # <<>> THEN <<"?">> \o u.query ELSE <<>>)
    \o (IF u.frag # <<>> THEN <<"#">> \o u.frag ELSE <<>>)

\* url.Parse(urlStr) returns an error: an invalid escape in the userinfo
\* or in the path.
ParseFails(u) == u.pass = <<"s3%zz">> \/ u.path = <<"/%zz">>

\* maskPassword(urlStr)
maskPassword(u) ==
    IF ParseFails(u)
    THEN UrlText(u)
    ELSE IF ~HasUserinfo(u)
    THEN UrlText(u)
    ELSE <<"amqps", "://">> \o u.user \o <<":****@">> \o <<"host">>
         \o u.path
         \o (IF u.query # <<>> THEN <<"?">> \o u.query ELSE <<>>)
         \o (IF u.frag # <<>> THEN <<"#">> \o u.frag ELSE <<>>)

\* The values of the --id flag.
IdFlags == {<<>>, <<"a", "b", "c">>, <<"1", "2", "3", "4">>}

NoURL == [user |-> <<>>, pass |-> <<>>, path |-> <<>>, query |-> <<>>, frag |-> <<>>]

\* A run of instance get that prints nothing of the instance.
GetFails(r) ==
    /\ igResult' = r
    /\ igShowURL' = FALSE
    /\ igURL' = NoURL
    /\ igOut' = <<>>

\* RunE of instanceGetCmd with the flags --id idFlag and --show-url
\* showURL; GetInstance fails (apiErr) or returns an instance with URL u.
InstanceGet ==
    /\ \E idFlag \in IdFlags, showURL \in BOOLEAN,
          k \in GetAPIKeyResults, apiErr \in BOOLEAN, u \in URLs :
          IF idFlag = <<>> THEN GetFails("err_id")
          ELSE IF k.err THEN GetFails("err_key")
          ELSE IF ~AtoiOK(idFlag) THEN GetFails("err_atoi")
          ELSE IF apiErr THEN GetFails("err_api")
          ELSE /\ igResult' = "ok"
               /\ igShowURL' = showURL
               /\ igURL' = u
               /\ igOut' = IF showURL THEN UrlText(u) ELSE maskPassword(u)
    /\ UNCHANGED pollerVars
    /\ UNCHANGED tableVars
    /\ UNCHANGED rotateVars
    /\ UNCHANGED setVars

\* No instance get run (the other specifications).
GetInitIdle ==
    /\ igResult = "none"
    /\ igShowURL = FALSE
    /\ igURL = NoURL
    /\ igOut = <<>>

\* ---------------------------------------------------------------------
\* instance config set (instanceConfigSetCmd)
\* ---------------------------------------------------------------------
STR_TRUE == <<"t", "r", "u", "e">>

STR_FALSE == <<"f", "a", "l", "s", "e">>

STR_NULL == <<"n", "u", "l", "l">>

\* Mutant of ConvertValue: the float test comes before the integer test.
ConvertValue_FloatFirst(v) ==
    IF ToLower(v) = STR_TRUE THEN [type |-> "bool", val |-> 1, text |-> <<>>]
    ELSE IF ToLower(v) = STR_FALSE THEN [type |-> "bool", val |-> 0, text |-> <<>>]
    ELSE IF ToLower(v) = STR_NULL THEN [type |-> "null", val |-> 0, text |-> <<>>]
    ELSE IF ParseFloatOK(v) THEN [type |-> "float", val |-> 0, text |-> v]
    ELSE IF AtoiOK(v) THEN [type |-> "int", val |-> AtoiVal(v), text |-> <<>>]
    ELSE [type |-> "string", val |-> 0, text |-> v]

\* instance_config.go:123-137: the value the setting is sent with. A bool
\* has val 1 (true) or 0 (false), an int its value; a float and a string
\* are kept as the text they were read from.
ConvertValue(v) ==
    IF ToLower(v) = STR_TRUE THEN [type |-> "bool", val |-> 1, text |-> <<>>]
    ELSE IF ToLower(v) = STR_FALSE THEN [type |-> "bool", val |-> 0, text |-> <<>>]
    ELSE IF ToLower(v) = STR_NULL THEN [type |-> "null", val |-> 0, text |-> <<>>]
    ELSE IF AtoiOK(v) THEN [type |-> "int", val |-> AtoiVal(v), text |-> <<>>]
    ELSE IF ParseFloatOK(v) THEN [type |-> "float", val |-> 0, text |-> v]
    ELSE [type |-> "string", val |-> 0, text |-> v]

\* The names and the values the command is run with.
SettingNames == {<<"rabbit.heartbeat">>, <<"rabbit.vm_memory_high_watermark">>}

ValueInputs ==
    { <<"t", "r", "u", "e">>,
      <<"T", "R", "U", "E">>,
      <<"T", "r", "u", "e">>,
      <<"f", "a", "l", "s", "e">>,
      <<"F", "a", "l", "s", "e">>,
      <<"n", "u", "l", "l">>,
      <<"N", "U", "L", "L">>,
      <<"1", "2", "0">>,
      <<"-", "5">>,
      <<"+", "7">>,
      <<"0", "0", "7">>,
      <<"0", ".", "8">>,
      <<".", "5">>,
      <<"5", ".">>,
      <<"1", "e", "3">>,
      <<"1", "E", "-", "2">>,
      <<"1", "e">>,
      <<"1", "e", "9", "9", "9">>,
      <<"1", ".", "8", "e", "3", "0", "8">>,
      <<"1", ".", "7", "e", "3", "0", "8">>,
      <<"1", "e", "-", "9", "9", "9">>,
      <<"0", "x", "1", "p", "1", "0", "2", "4">>,
      <<"9", "2", "2", "3", "3", "7", "2", "0", "3", "6", "8", "5", "4", "7", "7", "5", "8", "0", "8">>,
      <<"-">>,
      <<"+">>,
      <<".">>,
      <<"i", "n", "f">>,
      <<"-", "I", "n", "f">>,
      <<"I", "n", "f", "i", "n", "i", "t", "y">>,
      <<"N", "a", "N">>,
      <<"-", "n", "a", "n">>,
      <<"0", "x", "1", "F">>,
      <<"0", "x", "1", "p", "4">>,
      <<"1", "_", "0", "0", "0">>,
      <<"1", ".", "2", ".", "3">>,
      <<"1", "2", "a">>,
      <<"a", "b", "c">>,
      <<"t", "r", "u", "e", "e">>,
      <<>> }

NoArgs == [id |-> <<>>, name |-> <<>>, value |-> <<>>]

\* RunE of instanceConfigSetCmd with --id idFlag and the arguments name
\* and value; UpdateRabbitMQConfig succeeds or fails (updErr).
ConfigSet ==
    /\ \E idFlag \in IdFlags, name \in SettingNames, value \in ValueInputs,
          k \in GetAPIKeyResults, updErr \in BOOLEAN :
          /\ csArgs' = [id |-> idFlag, name |-> name, value |-> value]
          /\ IF idFlag = <<>>
             THEN /\ csResult' = "err_id"
                  /\ csSent' = <<>>
             ELSE IF k.err
             THEN /\ csResult' = "err_key"
                  /\ csSent' = <<>>
             ELSE /\ csSent' = <<[id |-> idFlag,
                                  config |-> {[name |-> name, value |-> ConvertValue(value)]}]>>
                  /\ csResult' = IF updErr THEN "err_update" ELSE "ok"
    /\ UNCHANGED pollerVars
    /\ UNCHANGED tableVars
    /\ UNCHANGED rotateVars
    /\ UNCHANGED getVars

\* No instance config set run (the other specifications).
SetInitIdle ==
    /\ csResult = "none"
    /\ csArgs = NoArgs
    /\ csSent = <<>>

CmdInitIdle ==
    /\ RotateInitIdle
    /\ GetInitIdle
    /\ SetInitIdle

\* ---------------------------------------------------------------------
\* Specifications
\* ---------------------------------------------------------------------

\* The state at wait.go:21: context, ticker and startTime are set up.
InitPoller ==
    /\ timeout \in 0..MaxTimeout
    /\ now = 0
    /\ pc = "immediate"
    /\ tickPending = FALSE
    /\ log = <<>>
    /\ waits = 0
    /\ ticks = 0
    /\ result = "none"
    /\ cause = "nil"
    /\ elapsed = -1
    /\ fetchEnd = 0
    /\ instanceID \in InstanceIDs
    /\ calls = <<>>
    /\ lastStart = 0
    /\ lastGap = 0
    /\ TableInitIdle
    /\ CmdInitIdle

NextPoller == FetchImmediate \/ SelectBlock \/ SelectDone \/ SelectTick

SpecPoller == InitPoller /\ [][NextPoller]_vars

\* The scheduling the Go runtime gives the poller: a GetInstance call that
\* can be made is made (the call returns), a blocked select is woken by
\* its timers, and a select whose ctx.Done() case stays ready takes that
\* case eventually (select chooses uniformly among its ready cases).
FairSpecPoller ==
    /\ SpecPoller
    /\ WF_vars(FetchImmediate)
    /\ WF_vars(SelectBlock)
    /\ WF_vars(SelectTick)
    /\ WF_vars(SelectDone)

\* The state after table.New(writer, headers...).
InitTable ==
    /\ \E headers \in HeaderLists : columns = NewColumns(headers)
    /\ rows = <<>>
    /\ out = <<>>
    /\ lastOp = "New"
    /\ lastLen = 0
    /\ lastErr = FALSE
    /\ nPrints = 0
    /\ PollerInitIdle
    /\ CmdInitIdle

NextTable == AddRowCall \/ PrinterPrint

SpecTable == InitTable /\ [][NextTable]_vars

\* A local configuration with or without a key, the service's key being 1.
InitRotate ==
    /\ storedKey \in {0, 1}
    /\ serverKey = 1
    /\ rkRuns = 0
    /\ rkResult = "none"
    /\ rkResp = 0
    /\ rkBefore = 0
    /\ PollerInitIdle
    /\ TableInitIdle
    /\ GetInitIdle
    /\ SetInitIdle

NextRotate == RotateKey \/ SetStoredKey

SpecRotate == InitRotate /\ [][NextRotate]_vars

\* A local configuration with or without a key; no run yet.
InitGet ==
    /\ storedKey \in {0, 1}
    /\ serverKey = 1
    /\ rkRuns = 0
    /\ rkResult = "none"
    /\ rkResp = 0
    /\ rkBefore = 0
    /\ GetInitIdle
    /\ PollerInitIdle
    /\ TableInitIdle
    /\ SetInitIdle

NextGet == InstanceGet

SpecGet == InitGet /\ [][NextGet]_vars

\* A local configuration with or without a key; no run yet.
InitSet ==
    /\ storedKey \in {0, 1}
    /\ serverKey = 1
    /\ rkRuns = 0
    /\ rkResult = "none"
    /\ rkResp = 0
    /\ rkBefore = 0
    /\ SetInitIdle
    /\ GetInitIdle
    /\ PollerInitIdle
    /\ TableInitIdle

NextSet == ConfigSet

SpecSet == InitSet /\ [][NextSet]_vars

\* ---------------------------------------------------------------------
\* Properties of waitForInstanceReady (checked under SpecPoller)
\* ---------------------------------------------------------------------
Returned == pc = "done"

NeverReady == \A i \in 1..Len(log) : log[i] = "notready"

\* C1: when the immediate GetInstance call reports Ready, the poller has
\* returned success with exactly one fetch, without blocking in the select
\* and without receiving a tick, whatever the timeout is.
C1_ImmediateReady ==
    (Len(log) >= 1 /\ log[1] = "ready") =>
        /\ Returned
        /\ result = "ok"
        /\ Len(log) = 1
        /\ waits = 0
        /\ ticks = 0

\* C1 witness: success on the immediate fetch although the timeout is 0
\* and the fetch itself took time.
C1_Witness ==
    /\ log = <<"ready">>
    /\ result = "ok"
    /\ timeout = 0
    /\ now > 0

\* C2 (as stated): with fetches that all succeed and never report ready the
\* poller returns the timeout error, never success, at an elapsed time in
\* [timeout, timeout + PollInterval].
C2_Original ==
    (Returned /\ NeverReady) =>
        /\ result = "timeout"
        /\ elapsed >= timeout
        /\ elapsed <= timeout + PollInterval

\* C2 (amended): with fetches that all succeed and never report ready the
\* poller returns the timeout error, never success, at an elapsed time of
\* at least the timeout; the return happens at the deadline or, when a
\* GetInstance call is still running then or is started by a tick that was
\* pending with the expired deadline, when the latest such call returns.
C2_TimeoutNeverReady ==
    (Returned /\ NeverReady) =>
        /\ result = "timeout"
        /\ elapsed >= timeout
        /\ elapsed = Max(timeout, fetchEnd)

\* C2 witness: a never-ready run with polls on ticks that ended in the
\* timeout error later than timeout + PollInterval.
C2_Witness ==
    /\ Returned
    /\ NeverReady
    /\ result = "timeout"
    /\ ticks >= 2
    /\ waits >= 1
    /\ elapsed > timeout + PollInterval

\* C3: when the first GetInstance call fails, the poller has returned the
\* error wrapping that cause with no wait cycle, no tick and no second fetch.
C3_FirstFetchError ==
    (Len(log) >= 1 /\ IsErr(log[1])) =>
        /\ Returned
        /\ result = "fetcherr"
        /\ cause = log[1]
        /\ Len(log) = 1
        /\ waits = 0
        /\ ticks = 0

\* C3 witness: the immediate call failed and the function returned.
C3_Witness ==
    /\ log = <<"err_decode">>
    /\ result = "fetcherr"
    /\ timeout > 0

\* C10: a failed GetInstance call, immediate or on a tick, is the last call
\* issued; the poller has returned the wrapped error carrying its cause,
\* not success and not the timeout error.
C10_FailFast ==
    \A i \in 1..Len(log) :
        IsErr(log[i]) =>
            /\ i = Len(log)
            /\ Returned
            /\ result = "fetcherr"
            /\ cause = log[i]

\* C10 witness: a call made on a tick failed after not-ready polls, at a
\* time when the deadline had already expired.
C10_Witness ==
    /\ Len(log) >= 3
    /\ log[Len(log)] = "err_transport"
    /\ result = "fetcherr"
    /\ now >= timeout

\* ---------------------------------------------------------------------
\* Properties of table.Printer (checked under SpecTable)
\* ---------------------------------------------------------------------
SetMax(S) == CHOOSE x \in S : \A y \in S : y <= x

\* The longest len among the header of column i and the cells stored for it.
MaxLen(i) ==
    SetMax({GoLen(columns[i].Header)} \cup {GoLen(rows[r][i]) : r \in DOMAIN rows})

\* The number of newline characters in a string.
RECURSIVE CountNL(_)
CountNL(s) ==
    IF s = <<>> THEN 0 ELSE (IF Head(s) = NL THEN 1 ELSE 0) + CountNL(Tail(s))

\* The concatenation of a sequence of sequences.
RECURSIVE Concat(_)
Concat(ss) == IF ss = <<>> THEN <<>> ELSE Head(ss) \o Concat(Tail(ss))

\* The newline characters inside the headers and the stored cells.
EmbeddedNL == CountNL(Concat(HeaderCells(columns))) + CountNL(Concat(Concat(rows)))

\* C4: an AddRow call whose number of values differs from the number of
\* columns returns an error and changes neither the rows nor any column
\* (header or width).
C4_MismatchLeavesTable ==
    [][(lastOp' = "AddRow" /\ lastLen' # Len(columns)) =>
           (lastErr' /\ columns' = columns /\ rows' = rows)]_vars

\* C4 witness: a row with one value too many was rejected by a table that
\* holds a row and has been printed.
C4_Witness ==
    /\ lastOp = "AddRow"
    /\ lastErr
    /\ lastLen = Len(columns) + 1
    /\ Len(columns) = 2
    /\ Len(rows) = 1
    /\ nPrints = 1

\* C5 (as stated): a Print call that directly follows a Print call writes
\* the same bytes as that call.
C5_Original ==
    [][(lastOp = "Print" /\ lastOp' = "Print" /\ nPrints' = nPrints + 1) =>
           out' = out]_vars

\* C6 (as stated): one Print call writes exactly len(rows) + 2 lines.
C6_Original ==
    lastOp = "Print" => CountNL(out) = Len(rows) + 2

\* C6 (amended): one Print call writes len(rows) + 2 newline-terminated
\* records (header, separator, one per row); the output has len(rows) + 2
\* lines plus one line for every newline character contained in a header
\* or a cell, so exactly len(rows) + 2 lines when there is none.
C6_LineCount ==
    lastOp = "Print" => CountNL(out) = Len(rows) + 2 + EmbeddedNL

\* C6 witness: a table of two columns and two rows without newline
\* characters has been printed.
C6_Witness ==
    /\ lastOp = "Print"
    /\ Len(columns) = 2
    /\ Len(rows) = 2
    /\ EmbeddedNL = 0
    /\ CountNL(out) = 4

\* The columns with the widths the claim C7 states: the longest len of the
\* column plus 2.
IdealColumns ==
    [i \in DOMAIN columns |-> [Header |-> columns[i].Header, Width |-> MaxLen(i) + 2]]

\* C7 (as stated): what a Print call writes is the header, the separator
\* and the rows with every column left-justified to MaxLen + 2 characters
\* and no cell truncated.
C7_Original ==
    lastOp = "Print" => out = Render(IdealColumns, rows)

\* C8 (as stated): every column's Width is the longest len among its header
\* and its stored cells, with the padding of 2 counted at most once.
C8_Original ==
    \A i \in DOMAIN columns : columns[i].Width \in {MaxLen(i), MaxLen(i) + 2}

\* C9: every stored row has as many cells as the table has columns.
C9_RowArity ==
    \A r \in DOMAIN rows : Len(rows[r]) = Len(columns)

\* C9 witness: a table holding two rows has rejected a shorter row after
\* a Print call.
C9_Witness ==
    /\ Len(rows) = 2
    /\ Len(columns) = 2
    /\ lastOp = "AddRow"
    /\ lastErr
    /\ lastLen < Len(columns)
    /\ nPrints >= 1

\* ---------------------------------------------------------------------
\* Further properties of waitForInstanceReady
\* ---------------------------------------------------------------------

\* C11 (as stated): every fetch other than the immediate one is issued a
\* full poll interval or more after the previous fetch was issued.
C11_Original ==
    Len(log) >= 2 => lastGap >= PollInterval

\* C11 (amended): every fetch other than the immediate one is issued on
\* the receipt of one tick of the ticker that runs since before the
\* immediate fetch, so the k-th of them is issued k poll intervals or more
\* after the start; the time since the previous fetch is not bounded below.
C11_TickSpacing ==
    Len(log) >= 2 =>
        /\ ticks = Len(log) - 1
        /\ lastStart >= (Len(log) - 1) * PollInterval

\* C11 witness: a third poll on a tick was issued less than a poll
\* interval after the poll before it.
C11_Witness ==
    /\ Len(log) >= 4
    /\ NeverReady
    /\ lastGap < PollInterval
    /\ lastStart >= 3 * PollInterval

\* C12: provided every GetInstance call returns, the invocation returns
\* eventually, with success, the wrapped fetch error or the timeout error;
\* a poll that is never ready and never fails ends with the timeout error.
C12_Terminates ==
    /\ <>Returned
    /\ [](Returned => result \in {"ok", "fetcherr", "timeout"})
    /\ []((Returned /\ NeverReady) => result = "timeout")

\* C12 witness: a poll that was never ready and never failed has returned
\* after blocking in the select and polling on ticks.
C12_Witness ==
    /\ Returned
    /\ NeverReady
    /\ Len(log) = 3
    /\ waits = 3
    /\ result = "timeout"

\* C15: the only client operation the poller invokes is GetInstance, on
\* the instance ID it was given, once per fetch.
C15_ReadOnly ==
    /\ Len(calls) = Len(log)
    /\ \A i \in 1..Len(calls) : calls[i] = [op |-> "GetInstance", id |-> instanceID]

\* C15 witness: a returned poll of instance 5678 that made three calls.
C15_Witness ==
    /\ Returned
    /\ instanceID = 5678
    /\ Len(calls) = 3

\* C16 (as stated): no fetch is issued once the deadline has expired, and
\* a success returned from the wait loop has an elapsed time of at most
\* the timeout.
C16_Original ==
    /\ Len(log) >= 2 => lastStart < timeout
    /\ (result = "ok" /\ Len(log) >= 2) => elapsed <= timeout

\* C16 (amended): once the deadline has expired and no tick is pending,
\* the poller issues no further fetch and returns the timeout error. (With
\* a tick pending too the select may take the tick: a fetch is then issued
\* after the deadline and success may be returned later than the timeout.)
C16_ExpiredNoTick ==
    [][(pc = "select" /\ DeadlineExpired /\ ~tickPending) =>
           (pc' = "done" /\ result' = "timeout" /\ log' = log /\ calls' = calls)]_vars

\* C16 witness: the timeout error was returned at the deadline itself,
\* after polls on ticks, with no tick pending.
C16_Witness ==
    /\ Returned
    /\ result = "timeout"
    /\ ~tickPending
    /\ Len(log) >= 2
    /\ elapsed = timeout

\* C17: success is returned only when the last fetch issued reported
\* Ready, and a fetch that reported Ready is the last fetch issued.
C17_SuccessSound ==
    /\ result = "ok" => (Len(log) >= 1 /\ log[Len(log)] = "ready")
    /\ \A i \in 1..Len(log) : log[i] = "ready" => (i = Len(log) /\ result = "ok")

\* C17 witness: success returned from the wait loop after not-ready polls.
C17_Witness ==
    /\ result = "ok"
    /\ Len(log) >= 3
    /\ ticks >= 2

\* ---------------------------------------------------------------------
\* Further properties of table.Printer
\* ---------------------------------------------------------------------

\* The positions of the newline characters of the latest output.
NLPositions == {k \in 1..Len(out) : out[k] = NL}

SetMin(S) == CHOOSE x \in S : \A y \in S : x <= y

\* The second line of the latest output (no header holds a newline).
SeparatorLine ==
    LET p1 == SetMin(NLPositions)
        p2 == SetMin(NLPositions \ {p1})
    IN  SubSeq(out, p1 + 1, p2 - 1)

\* The number of characters before the field of column i in a line whose
\* fields all fit their widths.
RECURSIVE FieldOffset(_)
FieldOffset(i) == IF i = 1 THEN 0 ELSE FieldOffset(i - 1) + columns[i - 1].Width + 1

SeparatorField(i) ==
    SubSeq(SeparatorLine, FieldOffset(i) + 1, FieldOffset(i) + columns[i].Width)

\* C13: in the separator line the field of every column is a run of '-'
\* of the len of the column's header (its length in bytes), followed by
\* spaces up to the column's width; it is neither the padded width nor the
\* longest cell's length.
C13_Separator ==
    lastOp = "Print" =>
        \A i \in DOMAIN columns :
            SeparatorField(i) =
                Repeat("-", GoLen(columns[i].Header))
                \o Repeat(" ", columns[i].Width - GoLen(columns[i].Header))

\* C13 witness: a printed table of two columns in which a cell is longer
\* than its header.
C13_Witness ==
    /\ lastOp = "Print"
    /\ nPrints = 1
    /\ Len(columns) = 2
    /\ \E i \in DOMAIN columns : MaxLen(i) > GoLen(columns[i].Header)

\* The lines of the stored rows, first to last.
DataLines == Concat([k \in DOMAIN rows |-> FormatLine(columns, rows[k])])

\* C14: the stored rows only grow, at the end, by a successful AddRow; a
\* rejected AddRow stores nothing; and what Print writes after the header
\* and the separator is the line of every stored row, once, in that order.
C14_RowOrder ==
    /\ [][\/ rows' = rows
          \/ /\ lastOp' = "AddRow"
             /\ ~lastErr'
             /\ Len(rows') = Len(rows) + 1
             /\ SubSeq(rows', 1, Len(rows)) = rows]_vars
    /\ [][(lastOp' = "AddRow" /\ lastErr') => rows' = rows]_vars
    /\ [](lastOp = "Print" =>
             out = FormatLine(columns, HeaderCells(columns))
                   \o FormatLine(columns, SeparatorCells(columns))
                   \o DataLines)

\* C14 witness: two different rows were stored, a third was rejected, and
\* the table was printed.
C14_Witness ==
    /\ lastOp = "Print"
    /\ lastErr
    /\ Len(rows) = 2
    /\ rows[1] # rows[2]
    /\ Len(columns) = 2

\* ---------------------------------------------------------------------
\* Properties of rotate-key (checked under SpecRotate)
\* ---------------------------------------------------------------------

\* C18 (as stated): after a rotate-key run that returned success the
\* stored key is the key RotateAPIKey returned, and after a run in which
\* RotateAPIKey failed the stored key is what it was before the run.
C18_Original ==
    /\ rkResult = "ok" => storedKey = rkResp
    /\ rkResult = "err_rotate" => storedKey = rkBefore

\* ---------------------------------------------------------------------
\* Properties of instance get (checked under SpecGet)
\* ---------------------------------------------------------------------

\* The password of the URL is part of the printed URL line.
PasswordPrinted ==
    /\ igURL.pass # <<>>
    /\ \E k \in 1..(Len(igOut) - Len(igURL.pass) + 1) :
          SubSeq(igOut, k, k + Len(igURL.pass) - 1) = igURL.pass

\* C19 (as stated): without --show-url the password of the instance URL is
\* not in the printed URL line, whatever URL the API returned; it is
\* printed only with --show-url.
C19_Original ==
    (igResult = "ok" /\ PasswordPrinted) => igShowURL

\* ---------------------------------------------------------------------
\* Properties of instance config set (checked under SpecSet)
\* ---------------------------------------------------------------------

\* The type the claim C20 gives a value, by its precedence.
C20_Type(v) ==
    IF ToLower(v) \in {STR_TRUE, STR_FALSE} THEN "bool"
    ELSE IF ToLower(v) = STR_NULL THEN "null"
    ELSE IF AtoiOK(v) THEN "int"
    ELSE IF ParseFloatOK(v) THEN "float"
    ELSE "string"

\* C20: a run with an empty --id sends no update; a run that reaches the
\* update sends one request, for the given instance, with the one named
\* setting, whose value is a boolean for true/false in any case, null for
\* null in any case, else an integer when the text parses as one, else a
\* float when it parses as one, else the text itself.
C20_Conversion ==
    /\ csResult # "none" => (csArgs.id = <<>> <=> csResult = "err_id")
    /\ csResult \in {"err_id", "err_key"} => csSent = <<>>
    /\ csResult \in {"ok", "err_update"} =>
          /\ Len(csSent) = 1
          /\ csSent[1].id = csArgs.id
          /\ Cardinality(csSent[1].config) = 1
          /\ \A e \in csSent[1].config :
                /\ e.name = csArgs.name
                /\ e.value.type = C20_Type(csArgs.value)
                /\ e.value.type = "bool" => e.value.val = (IF ToLower(csArgs.value) = STR_TRUE THEN 1 ELSE 0)
                /\ e.value.type = "int" => e.value.val = AtoiVal(csArgs.value)
                /\ e.value.type \in {"float", "string"} => e.value.text = csArgs.value

\* C20 witness: the update was sent with an integer for a text that also
\* parses as a float.
C20_Witness ==
    /\ csResult = "ok"
    /\ csArgs.value = <<"1", "2", "0">>
    /\ \E e \in csSent[1].config : e.value.type = "int" /\ e.value.val = 120

====
